---- MODULE Spec2Model ----
(***************************************************************************)
(* Model of app.py: the module-level loading script (code normalisation,   *)
(* back-filling of the missing column, the per-municipality summary) and   *)
(* the update_map callback (aggregate, left join, classification, figure). *)
(*                                                                         *)
(* Floating-point values are modelled as extended rationals <<n, d>>:      *)
(*   <<n, d>> with d > 0  the finite value n/d in lowest terms             *)
(*   <<1, 0>>             +inf   (x / 0 for x > 0)                         *)
(*   <<0, 0>>             NaN    (0 / 0, inf * 0, the pandas missing value)*)
(* Rounding is abstracted away; all inputs are non-negative.               *)
(* Strings of digits are modelled as sequences over 0..9.                  *)
(***************************************************************************)
EXTENDS Integers, Sequences, FiniteSets, TLC

VARIABLES
    csv,            \* the CSV file as read (line 26); never written
    geojson,        \* the GeoJSON file as read (line 25); never written
    df,             \* global record table
    antioquia,      \* global boundary table
    resumen,        \* global per-municipality summary (lines 44-48)
    pc,             \* position in the loading script; "ready" once served
    inputs,         \* values of colorPalette, show_labels, mapClass
    antioquia_data, \* local of the last update_map call
    scheme,         \* local of the last update_map call
    fig             \* what the last update_map call returned

vars == <<csv, geojson, df, antioquia, resumen, pc, inputs, antioquia_data,
          scheme, fig>>

(* ---------------------------------------------------------------------- *)
(* Bounds                                                                 *)
(* ---------------------------------------------------------------------- *)
MaxRecords == 3
MaxBoundaries == 3

(* ---------------------------------------------------------------------- *)
(* Floating-point arithmetic (numpy semantics, no exception on x / 0)     *)
(* ---------------------------------------------------------------------- *)
NaN == <<0, 0>>
Inf == <<1, 0>>
Zero == <<0, 1>>

RECURSIVE GCD(_, _)
GCD(a, b) == IF b = 0 THEN a ELSE GCD(b, a % b)

Abs(x) == IF x < 0 THEN -x ELSE x

Norm(n, d) ==
    IF d = 0 THEN (IF n = 0 THEN NaN ELSE IF n > 0 THEN Inf ELSE <<-1, 0>>)
    ELSE LET s == IF d < 0 THEN -1 ELSE 1
             g == GCD(Abs(n), Abs(d))
         IN  <<(s * n) \div g, (s * d) \div g>>

Num(i) == <<i, 1>>

IsNaN(x) == x = NaN
IsFinite(x) == x[2] # 0

FMul(x, y) == Norm(x[1] * y[1], x[2] * y[2])

FDiv(x, y) ==
    IF y[1] < 0 THEN Norm(-(x[1] * y[2]), -(x[2] * y[1]))
    ELSE Norm(x[1] * y[2], x[2] * y[1])

FAdd(x, y) ==
    IF IsNaN(x) \/ IsNaN(y) THEN NaN
    ELSE IF ~IsFinite(x) /\ ~IsFinite(y) THEN (IF x = y THEN x ELSE NaN)
    ELSE IF ~IsFinite(x) THEN x
    ELSE IF ~IsFinite(y) THEN y
    ELSE Norm(x[1] * y[2] + y[1] * x[2], x[2] * y[2])

FSub(x, y) == FAdd(x, <<-y[1], y[2]>>)

(* x < y on floats; every comparison with NaN is false *)
FLt(x, y) ==
    /\ ~IsNaN(x) /\ ~IsNaN(y)
    /\ x # y
    /\ IF IsFinite(x) /\ IsFinite(y) THEN x[1] * y[2] < y[1] * x[2]
       ELSE IF IsFinite(x) THEN y[1] > 0
       ELSE IF IsFinite(y) THEN x[1] < 0
       ELSE x[1] < y[1]

(* x == y on floats; NaN equals nothing *)
FEq(x, y) == ~IsNaN(x) /\ ~IsNaN(y) /\ x = y

FLe(x, y) == FLt(x, y) \/ FEq(x, y)

(* ---------------------------------------------------------------------- *)
(* astype(str) and str.zfill                                              *)
(* ---------------------------------------------------------------------- *)
RECURSIVE Digits(_)
Digits(n) == IF n < 10 THEN <<n>> ELSE Append(Digits(n \div 10), n % 10)

RECURSIVE Zeros(_)
Zeros(k) == IF k <= 0 THEN <<>> ELSE <<0>> \o Zeros(k - 1)

(* padding on the wrong side *)
zfillRight(s, width) ==
    IF Len(s) >= width THEN s ELSE s \o Zeros(width - Len(s))

zfill(s, width) == IF Len(s) >= width THEN s ELSE Zeros(width - Len(s)) \o s

CodeWidth == 5

(* lexicographic order on strings, the order groupby sorts its keys in *)
RECURSIVE StrLt(_, _)
StrLt(s, t) ==
    IF t = <<>> THEN FALSE
    ELSE IF s = <<>> THEN TRUE
    ELSE IF Head(s) # Head(t) THEN Head(s) < Head(t)
    ELSE StrLt(Tail(s), Tail(t))

(* ---------------------------------------------------------------------- *)
(* Input files                                                            *)
(* ---------------------------------------------------------------------- *)
(* The reference CSV, in file order: codigomunicipio is read as an       *)
(* integer, the measures as numbers.                                     *)
CsvRows ==
    << [codigomunicipio |-> 5002, numerocasos |-> Num(0),
        poblacion |-> Num(50000), tasaxmilhabitantes |-> Num(0)],
       [codigomunicipio |-> 123456, numerocasos |-> Num(100),
        poblacion |-> Num(50000), tasaxmilhabitantes |-> Num(2)],
       [codigomunicipio |-> 5001, numerocasos |-> Num(100),
        poblacion |-> Num(100000), tasaxmilhabitantes |-> Num(1)],
       [codigomunicipio |-> 5003, numerocasos |-> Num(0),
        poblacion |-> Num(0), tasaxmilhabitantes |-> Num(0)],
       [codigomunicipio |-> 5001, numerocasos |-> Num(50),
        poblacion |-> Num(50000), tasaxmilhabitantes |-> Num(1)],
       [codigomunicipio |-> 5002, numerocasos |-> Num(50),
        poblacion |-> Num(0), tasaxmilhabitantes |-> Num(0)] >>

(* The reference GeoJSON, in file order: the code is a string. *)
GeoFeatures ==
    << [mpio_cdpmp |-> <<0, 5, 0, 0, 1>>, mpio_cnmbr |-> "MEDELLIN"],
       [mpio_cdpmp |-> <<5, 0, 0, 2>>, mpio_cnmbr |-> "ABEJORRAL"],
       [mpio_cdpmp |-> <<1, 2, 3, 4, 5, 6>>, mpio_cnmbr |-> "LARGO"],
       [mpio_cdpmp |-> <<0, 5, 0, 0, 4>>, mpio_cnmbr |-> "ABRIAQUI"] >>

MeasureColumns == {"numerocasos", "poblacion", "tasaxmilhabitantes"}

(* value stored in the field of a column the table does not have *)
Absent == NaN

Range(q) == { q[i] : i \in 1..Len(q) }

(* the rows of q at the positions I, in file order *)
RECURSIVE Pick(_, _)
Pick(q, I) ==
    IF q = <<>> THEN <<>>
    ELSE Pick(SubSeq(q, 1, Len(q) - 1), I)
         \o (IF Len(q) \in I THEN <<q[Len(q)]>> ELSE <<>>)

(* the files made of 1..n rows of q *)
Selections(q, n) ==
    { Pick(q, I) : I \in { J \in SUBSET (1..Len(q)) :
                             Cardinality(J) >= 1 /\ Cardinality(J) <= n } }

(* a table: its column names and its rows *)
Table(cols, rows) == [cols |-> cols, rows |-> rows]

(* the CSV as read: the rows, with the fields of the columns the file *)
(* does not have blanked                                              *)
DropColumns(row, missing) ==
    [c \in DOMAIN row |-> IF c \in missing THEN Absent ELSE row[c]]

CsvTables ==
    { Table({"codigomunicipio"} \cup (MeasureColumns \ missing),
            [i \in 1..Len(q) |-> DropColumns(q[i], missing)]) :
        q \in Selections(CsvRows, MaxRecords),
        missing \in SUBSET MeasureColumns }

GeoTables ==
    { Table({"mpio_cdpmp", "mpio_cnmbr"}, q) :
        q \in Selections(GeoFeatures, MaxBoundaries) }

NoTable == Table({}, <<>>)
NoScheme == [name |-> "none"]
NoFigure == [status |-> "none"]

(* the values the three controls start with (lines 173, 183, 192) *)
DefaultInputs == <<"Viridis", <<>>, "continuous">>

Init ==
    /\ csv \in CsvTables
    /\ geojson \in GeoTables
    /\ df = csv
    /\ antioquia = geojson
    /\ inputs = DefaultInputs
    /\ resumen = NoTable
    /\ antioquia_data = NoTable
    /\ scheme = NoScheme
    /\ fig = NoFigure
    /\ pc = "codes"

(* ---------------------------------------------------------------------- *)
(* Module-level loading script                                            *)
(* ---------------------------------------------------------------------- *)
(* t[name] = values *)
SetColumn(t, name, values) ==
    Table(t.cols \cup {name},
          [i \in 1..Len(t.rows) |-> [t.rows[i] EXCEPT ![name] = values[i]]])

(* lines 31-32: df["codigomunicipio"].astype(str).str.zfill(5) *)
PadRecordCode(row) == zfill(Digits(row.codigomunicipio), CodeWidth)

(* lines 34-35: antioquia["mpio_cdpmp"].astype(str).str.zfill(5) *)
PadBoundaryCode(row) == zfill(row.mpio_cdpmp, CodeWidth)

NormalizeCodes ==
    /\ pc = "codes"
    /\ df' = IF "codigomunicipio" \in df.cols
             THEN SetColumn(df, "codigomunicipio",
                            [i \in 1..Len(df.rows) |-> PadRecordCode(df.rows[i])])
             ELSE df
    /\ antioquia' = IF "mpio_cdpmp" \in antioquia.cols
                    THEN SetColumn(antioquia, "mpio_cdpmp",
                                   [i \in 1..Len(antioquia.rows) |->
                                      PadBoundaryCode(antioquia.rows[i])])
                    ELSE antioquia
    /\ pc' = "reconcile"
    /\ UNCHANGED <<csv, geojson, resumen, inputs, antioquia_data, scheme, fig>>

(* line 39 *)
FillCases(row) ==
    FDiv(FMul(row.tasaxmilhabitantes, row.poblacion), Num(1000))

(* the quotient turned upside down *)
FillPopulationInverted(row) ==
    FDiv(FMul(row.tasaxmilhabitantes, Num(1000)), row.numerocasos)

(* line 43 *)
FillPopulation(row) ==
    FDiv(FMul(row.numerocasos, Num(1000)), row.tasaxmilhabitantes)

(* lines 36-43; the second test reads the columns the first branch left *)
Reconciled(t) ==
    IF "tasaxmilhabitantes" \in t.cols
    THEN LET t1 == IF "poblacion" \in t.cols /\ "numerocasos" \notin t.cols
                   THEN SetColumn(t, "numerocasos",
                                  [i \in 1..Len(t.rows) |-> FillCases(t.rows[i])])
                   ELSE t
         IN  IF "numerocasos" \in t1.cols /\ "poblacion" \notin t1.cols
             THEN SetColumn(t1, "poblacion",
                            [i \in 1..Len(t1.rows) |->
                               FillPopulation(t1.rows[i])])
             ELSE t1
    ELSE t

Reconcile ==
    /\ pc = "reconcile"
    /\ df' = Reconciled(df)
    /\ pc' = "summary"
    /\ UNCHANGED <<csv, geojson, antioquia, resumen, inputs, antioquia_data,
                   scheme, fig>>

(* ---------------------------------------------------------------------- *)
(* Aggregator: groupby("codigomunicipio").agg(sum, sum).reset_index()     *)
(* ---------------------------------------------------------------------- *)
(* the keys of a groupby: the distinct codes, sorted ascending *)
RECURSIVE SortCodes(_)
SortCodes(S) ==
    IF S = {} THEN <<>>
    ELSE LET m == CHOOSE x \in S : \A y \in S \ {x} : StrLt(x, y)
         IN  <<m>> \o SortCodes(S \ {m})

(* "sum" of a group: missing values are skipped, the empty sum is 0 *)
RECURSIVE SumSkipNA(_)
SumSkipNA(q) ==
    IF q = <<>> THEN Zero
    ELSE IF IsNaN(Head(q)) THEN SumSkipNA(Tail(q))
    ELSE FAdd(Head(q), SumSkipNA(Tail(q)))

(* the values of column name in the rows whose code is key, in row order *)
RECURSIVE GroupValues(_, _, _)
GroupValues(rows, key, name) ==
    IF rows = <<>> THEN <<>>
    ELSE IF Head(rows).codigomunicipio = key
         THEN <<Head(rows)[name]>> \o GroupValues(Tail(rows), key, name)
         ELSE GroupValues(Tail(rows), key, name)

(* the rate as a plain ratio, the factor 1000 forgotten *)
RateUnscaled(casos, poblacion) == FDiv(casos, poblacion)

(* line 48 / line 267 *)
Rate(casos, poblacion) == FMul(FDiv(casos, poblacion), Num(1000))

GroupRow(t, key) ==
    LET casos == SumSkipNA(GroupValues(t.rows, key, "numerocasos"))
        pob   == SumSkipNA(GroupValues(t.rows, key, "poblacion"))
    IN  [codigomunicipio |-> key,
         casos_totales   |-> casos,
         poblacion_total |-> pob,
         tasa_x_mil      |-> Rate(casos, pob)]

(* one summary row per record instead of one per distinct code *)
AggregatePerRecord(t) ==
    Table({"codigomunicipio", "casos_totales", "poblacion_total",
           "tasa_x_mil"},
          [j \in 1..Len(t.rows) |-> GroupRow(t, t.rows[j].codigomunicipio)])

(* lines 44-48 and 263-267 *)
Aggregate(t) ==
    LET keys == SortCodes({ t.rows[i].codigomunicipio : i \in 1..Len(t.rows) })
    IN  Table({"codigomunicipio", "casos_totales", "poblacion_total",
               "tasa_x_mil"},
              [j \in 1..Len(keys) |-> GroupRow(t, keys[j])])

(* agg raises KeyError when a column it names does not exist *)
AggregateRaises(t) ==
    ~({"codigomunicipio", "numerocasos", "poblacion"} \subseteq t.cols)

(* lines 44-48: the module-level summary; an exception here ends the *)
(* process before the server starts                                  *)
Summarize ==
    /\ pc = "summary"
    /\ IF AggregateRaises(df)
       THEN /\ pc' = "failed"
            /\ UNCHANGED resumen
       ELSE /\ pc' = "ready"
            /\ resumen' = Aggregate(df)
    /\ UNCHANGED <<csv, geojson, df, antioquia, inputs, antioquia_data, scheme,
                   fig>>

(* ---------------------------------------------------------------------- *)
(* Geo join: antioquia.merge(resumen, left_on, right_on, how="left")      *)
(* ---------------------------------------------------------------------- *)
(* the missing value of a string column and of an integer column; NA is *)
(* below every index find_bin can return                               *)
NoCode == <<-1>>
NA == -2

(* a boundary row joined with an aggregate row *)
Matched(l, r) ==
    [mpio_cdpmp      |-> l.mpio_cdpmp,
     mpio_cnmbr      |-> l.mpio_cnmbr,
     codigomunicipio |-> r.codigomunicipio,
     casos_totales   |-> r.casos_totales,
     poblacion_total |-> r.poblacion_total,
     tasa_x_mil      |-> r.tasa_x_mil,
     clase           |-> NA]

(* a boundary row no aggregate row matches: nulls on the right side *)
Unmatched(l) ==
    [mpio_cdpmp      |-> l.mpio_cdpmp,
     mpio_cnmbr      |-> l.mpio_cnmbr,
     codigomunicipio |-> NoCode,
     casos_totales   |-> NaN,
     poblacion_total |-> NaN,
     tasa_x_mil      |-> NaN,
     clase           |-> NA]

(* the rows of right whose key equals the key of l, joined, in row order *)
RECURSIVE Matches(_, _)
Matches(l, right) ==
    IF right = <<>> THEN <<>>
    ELSE IF Head(right).codigomunicipio = l.mpio_cdpmp
         THEN <<Matched(l, Head(right))>> \o Matches(l, Tail(right))
         ELSE Matches(l, Tail(right))

(* an inner join: boundaries without a match are dropped *)
RECURSIVE MergeRowsInner(_, _)
MergeRowsInner(left, right) ==
    IF left = <<>> THEN <<>>
    ELSE Matches(Head(left), right) \o MergeRowsInner(Tail(left), right)

RECURSIVE MergeRows(_, _)
MergeRows(left, right) ==
    IF left = <<>> THEN <<>>
    ELSE LET m == Matches(Head(left), right)
         IN  (IF m = <<>> THEN <<Unmatched(Head(left))>> ELSE m)
             \o MergeRows(Tail(left), right)

(* lines 269-271 *)
MergeLeft(left, right) ==
    Table(left.cols \cup right.cols, MergeRows(left.rows, right.rows))

(* ---------------------------------------------------------------------- *)
(* Classifier: mc.Quantiles / mc.NaturalBreaks and find_bin               *)
(* ---------------------------------------------------------------------- *)
NumClasses == 5

(* the order numpy sorts floats in: NaN after every number *)
SortLt(x, y) ==
    IF IsNaN(x) THEN FALSE ELSE IF IsNaN(y) THEN TRUE ELSE FLt(x, y)

Column(t, name) == [i \in 1..Len(t.rows) |-> t.rows[i][name]]

(* Series.dropna(): NaN is dropped, inf is kept *)
RECURSIVE dropna(_)
dropna(q) ==
    IF q = <<>> THEN <<>>
    ELSE IF IsNaN(Head(q)) THEN dropna(Tail(q))
    ELSE <<Head(q)>> \o dropna(Tail(q))

RECURSIVE Insert(_, _)
Insert(q, x) ==
    IF q = <<>> THEN <<x>>
    ELSE IF SortLt(x, Head(q)) THEN <<x>> \o q
    ELSE <<Head(q)>> \o Insert(Tail(q), x)

RECURSIVE Sorted(_)
Sorted(q) == IF q = <<>> THEN <<>> ELSE Insert(Sorted(Tail(q)), Head(q))

(* np.unique: the distinct values, ascending *)
RECURSIVE Unique(_)
Unique(S) ==
    IF S = {} THEN <<>>
    ELSE LET m == CHOOSE x \in S : \A y \in S \ {x} : SortLt(x, y)
         IN  <<m>> \o Unique(S \ {m})

(* the (100 * j / k)-th percentile of the sorted sample s, interpolating *)
(* linearly between the two nearest ranks; NaN for an empty sample       *)
Percentile(s, j, k) ==
    IF s = <<>> THEN NaN
    ELSE LET pos == j * (Len(s) - 1)
             i   == pos \div k
             r   == pos % k
         IN  IF r = 0 THEN s[i + 1]
             ELSE FAdd(FMul(s[i + 1], <<k - r, k>>), FMul(s[i + 2], <<r, k>>))

(* mc.Quantiles(y, k).bins *)
QuantileBins(y, k) ==
    LET s == Sorted(y)
    IN  Unique({ Percentile(s, j, k) : j \in 1..k })

(* mc.NaturalBreaks(y, k).bins: with fewer than k distinct values the     *)
(* bins are the distinct values; otherwise the upper bounds of k clusters *)
(* of the sorted values, whichever clustering the k-means search settles  *)
(* on                                                                     *)
NaturalBreaksBins(y, k) ==
    LET uv == Range(y)
    IN  IF Cardinality(uv) < k THEN {Unique(uv)}
        ELSE { Unique(B) : B \in { C \in SUBSET uv :
                 /\ Cardinality(C) = k
                 /\ \A x \in uv : \E c \in C : ~SortLt(c, x) } }

(* bins counted from the top: the labels descend with the value *)
DigitizeDescending(x, bins) ==
    Cardinality({ i \in 1..Len(bins) : SortLt(x, bins[i]) })

(* np.digitize(x, bins, right=True): how many bins sort before x *)
Digitize(x, bins) == Cardinality({ i \in 1..Len(bins) : SortLt(bins[i], x) })

SeqMax(q) == CHOOSE m \in Range(q) : \A x \in Range(q) : x <= m

(* scheme.find_bin(x): digitize, then the indices past the last bin are *)
(* moved into the last bin                                              *)
find_bin(xs, bins) ==
    LET right == [i \in 1..Len(xs) |-> Digitize(xs[i], bins)]
    IN  IF SeqMax(right) = Len(bins)
        THEN [i \in 1..Len(xs) |->
                IF right[i] = Len(bins) THEN Len(bins) - 1 ELSE right[i]]
        ELSE right

(* the schemes a fit may return *)
Fit(mapClass, y) ==
    IF mapClass = "quantiles"
    THEN { [name |-> "Quantiles", y |-> y, bins |-> QuantileBins(y, NumClasses)] }
    ELSE { [name |-> "NaturalBreaks", y |-> y, bins |-> b] :
             b \in NaturalBreaksBins(y, NumClasses) }

(* A fit on an empty sample or on one holding inf is outside what the    *)
(* classifiers are specified for: the call may raise or may return.      *)
Degenerate(y) == y = <<>> \/ \E i \in 1..Len(y) : ~IsFinite(y[i])

FitOutcomes(y) == IF Degenerate(y) THEN {"raised", "figure"} ELSE {"figure"}

(* ---------------------------------------------------------------------- *)
(* update_map(colorPalette, show_labels, mapClass)                        *)
(* ---------------------------------------------------------------------- *)
(* two of the four palettes the dropdown offers (lines 177-182) *)
Palettes == {"Blues", "Viridis"}
LabelChoices == {<<>>, <<"yes">>}
MapClasses == {"continuous", "quantiles", "jenks"}

(* lines 279 and 283: antioquia_data["clase"] = scheme.find_bin(...) *)
WithClase(t, labels) ==
    Table(t.cols \cup {"clase"},
          [i \in 1..Len(t.rows) |-> [t.rows[i] EXCEPT !.clase = labels[i]]])

(* lines 290-318: the figure handed back to the map component *)
Figure(t, color_col, colorPalette, show_labels, mapClass) ==
    [status    |-> "figure",
     locations |-> [i \in 1..Len(t.rows) |-> i - 1],
     color     |-> color_col,
     z         |-> Column(t, color_col),
     scale     |-> IF mapClass = "continuous"
                   THEN <<"color_continuous_scale", colorPalette>>
                   ELSE <<"color_discrete_sequence", colorPalette>>,
     text      |-> IF "yes" \in Range(show_labels)
                   THEN Column(t, "mpio_cnmbr") ELSE <<>>,
     customdata |-> IF "tasa_x_mil" \in t.cols
                    THEN Column(t, "tasa_x_mil") ELSE <<>>,
     hover     |-> "yes" \in Range(show_labels)]

Raised == [status |-> "raised"]

(* lines 263-271 *)
Joined(records, boundaries) == MergeLeft(boundaries, Aggregate(records))

(* the merge result assigned back to the global table *)
BoundariesRebound(data) == data

(* line 269 binds the merge result to the local antioquia_data, and lines *)
(* 279/283 add "clase" to that local: the global keeps its value          *)
BoundariesAfterMap(data) == antioquia

(* lines 263-267 bind the groupby result to a local resumen: df and the *)
(* global resumen keep their values                                     *)
RecordsAfterMap(data) == df

(* lines 263-320: what a call computes from the two tables and its three *)
(* arguments: the joined (and classified) frame, the scheme, the figure   *)
MapOutcomes(records, boundaries, colorPalette, show_labels, mapClass) ==
    LET joined == Joined(records, boundaries)
        rates  == Column(joined, "tasa_x_mil")
        y      == dropna(rates)
        Classified(sch) == WithClase(joined, find_bin(rates, sch.bins))
    IN  IF mapClass = "continuous"
        THEN { [data   |-> joined,
                scheme |-> NoScheme,
                fig    |-> Figure(joined, "tasa_x_mil", colorPalette,
                                  show_labels, mapClass)] }
        ELSE { IF outcome = "raised"
               THEN [data |-> joined, scheme |-> NoScheme, fig |-> Raised]
               ELSE [data   |-> Classified(sch),
                     scheme |-> sch,
                     fig    |-> Figure(Classified(sch), "clase", colorPalette,
                                       show_labels, mapClass)] :
                 sch \in Fit(mapClass, y), outcome \in FitOutcomes(y) }

update_map(colorPalette, show_labels, mapClass) ==
    /\ pc = "ready"
    /\ \E out \in MapOutcomes(df, antioquia, colorPalette, show_labels,
                              mapClass) :
        /\ antioquia_data' = out.data
        /\ scheme' = out.scheme
        /\ fig' = out.fig
    /\ inputs' = <<colorPalette, show_labels, mapClass>>
    /\ df' = RecordsAfterMap(antioquia_data')
    /\ antioquia' = BoundariesAfterMap(antioquia_data')
    /\ UNCHANGED <<csv, geojson, resumen, pc>>

UpdateMap ==
    \E colorPalette \in Palettes, show_labels \in LabelChoices,
       mapClass \in MapClasses :
        update_map(colorPalette, show_labels, mapClass)

Next == NormalizeCodes \/ Reconcile \/ Summarize \/ UpdateMap

Spec == Init /\ [][Next]_vars

(* ====================================================================== *)
(* Properties                                                             *)
(* ====================================================================== *)
(* an update_map call has returned or raised *)
Served == pc = "ready" /\ fig.status # "none"

Codes(t, name) == { t.rows[i][name] : i \in 1..Len(t.rows) }

(* the tables the loading script leaves, recomputed from the files *)
LoadedRecords ==
    Reconciled(SetColumn(csv, "codigomunicipio",
                         [i \in 1..Len(csv.rows) |-> PadRecordCode(csv.rows[i])]))
LoadedBoundaries ==
    SetColumn(geojson, "mpio_cdpmp",
              [i \in 1..Len(geojson.rows) |->
                 PadBoundaryCode(geojson.rows[i])])

(* ---------------------------------------------------------------------- *)
(* C1: the left join of update_map yields exactly one joined feature per  *)
(* boundary feature, in boundary order, whether the boundary code matches *)
(* an aggregate row or not: none is dropped, none is duplicated.          *)
JoinKeepsBoundaryCount ==
    Served =>
      /\ Len(antioquia_data.rows) = Len(antioquia.rows)
      /\ \A i \in 1..Len(antioquia_data.rows) :
            i <= Len(antioquia.rows) =>
              antioquia_data.rows[i].mpio_cdpmp = antioquia.rows[i].mpio_cdpmp

(* a join where one boundary matched two-record aggregate and one did not *)
JoinMixedCoverage ==
    /\ Served
    /\ Len(antioquia.rows) = 2
    /\ \E i, j \in 1..Len(antioquia_data.rows) :
         /\ antioquia_data.rows[i].codigomunicipio = NoCode
         /\ antioquia_data.rows[j].codigomunicipio # NoCode
    /\ \E i, j \in 1..Len(df.rows) :
         i # j /\ df.rows[i].codigomunicipio = df.rows[j].codigomunicipio
                /\ df.rows[i].codigomunicipio \in Codes(antioquia, "mpio_cdpmp")

(* ---------------------------------------------------------------------- *)
(* C2: the aggregate has exactly one row per distinct municipality code   *)
(* of the record table; casos_totales and poblacion_total are the sums of *)
(* the case counts and populations of the records with that code, and     *)
(* tasa_x_mil = casos_totales / poblacion_total * 1000. Two records of    *)
(* 05001 with (100, 100000) and (50, 50000) give 150, 150000 and 1.0.     *)
RECURSIVE SumOver(_, _, _)
SumOver(t, I, name) ==
    IF I = {} THEN Zero
    ELSE LET i == CHOOSE x \in I : TRUE
         IN  FAdd(t.rows[i][name], SumOver(t, I \ {i}, name))

(* the records with code c whose value in column name is present *)
Present(t, c, name) ==
    { i \in 1..Len(t.rows) :
        t.rows[i].codigomunicipio = c /\ ~IsNaN(t.rows[i][name]) }

(* r = c / p * 1000, by cross-multiplication where c and p are finite *)
IsRateOf(r, c, p) ==
    IF IsNaN(p) \/ IsNaN(c) THEN IsNaN(r)
    ELSE IF p = Zero THEN r = (IF c = Zero THEN NaN ELSE Inf)
    ELSE IF ~IsFinite(p) THEN r = (IF IsFinite(c) THEN Zero ELSE NaN)
    ELSE /\ IsFinite(r) = IsFinite(c)
         /\ IsFinite(r) => r[1] * c[2] * p[1] = 1000 * c[1] * p[2] * r[2]

ExampleRecords ==
    << [codigomunicipio |-> <<0, 5, 0, 0, 1>>, numerocasos |-> Num(100),
        poblacion |-> Num(100000)],
       [codigomunicipio |-> <<0, 5, 0, 0, 1>>, numerocasos |-> Num(50),
        poblacion |-> Num(50000)] >>

IsExample ==
    /\ Len(df.rows) = 2
    /\ \A i \in 1..2 : \A f \in DOMAIN ExampleRecords[i] :
         df.rows[i][f] = ExampleRecords[i][f]

AggregateSums ==
    pc = "ready" =>
      /\ Codes(resumen, "codigomunicipio") = Codes(df, "codigomunicipio")
      /\ Len(resumen.rows) = Cardinality(Codes(df, "codigomunicipio"))
      /\ \A j \in 1..Len(resumen.rows) :
           LET r == resumen.rows[j]
               c == r.codigomunicipio
           IN  /\ r.casos_totales =
                    SumOver(df, Present(df, c, "numerocasos"), "numerocasos")
               /\ r.poblacion_total =
                    SumOver(df, Present(df, c, "poblacion"), "poblacion")
               /\ IsRateOf(r.tasa_x_mil, r.casos_totales, r.poblacion_total)
      /\ IsExample =>
           resumen.rows = << [codigomunicipio |-> <<0, 5, 0, 0, 1>>,
                              casos_totales   |-> Num(150),
                              poblacion_total |-> Num(150000),
                              tasa_x_mil      |-> Num(1)] >>

(* the example of the claim has been aggregated *)
ExampleAggregated ==
    /\ pc = "ready"
    /\ IsExample
    /\ Len(resumen.rows) = 1
    /\ resumen.rows[1].casos_totales = Num(150)
    /\ resumen.rows[1].tasa_x_mil = Num(1)

(* ---------------------------------------------------------------------- *)
(* C7: a boundary whose code matches no aggregate row is still a joined   *)
(* feature, with null casos_totales, poblacion_total and tasa_x_mil; an   *)
(* aggregate row whose code matches no boundary contributes no feature;   *)
(* neither mismatch makes the call fail.                                  *)
MismatchesBecomeNulls ==
    Served =>
      /\ \A i \in 1..Len(antioquia.rows) :
           antioquia.rows[i].mpio_cdpmp \notin Codes(resumen, "codigomunicipio")
           => \E j \in 1..Len(antioquia_data.rows) :
                /\ antioquia_data.rows[j].mpio_cdpmp
                     = antioquia.rows[i].mpio_cdpmp
                /\ antioquia_data.rows[j].mpio_cnmbr
                     = antioquia.rows[i].mpio_cnmbr
                /\ IsNaN(antioquia_data.rows[j].casos_totales)
                /\ IsNaN(antioquia_data.rows[j].poblacion_total)
                /\ IsNaN(antioquia_data.rows[j].tasa_x_mil)
      /\ Codes(antioquia_data, "mpio_cdpmp") \subseteq
           Codes(antioquia, "mpio_cdpmp")
      /\ inputs[3] = "continuous" => fig.status = "figure"

(* a call where a boundary had no aggregate and an aggregate no boundary *)
MismatchBothWays ==
    /\ Served
    /\ fig.status = "figure"
    /\ inputs[3] = "continuous"
    /\ Codes(antioquia, "mpio_cdpmp") \ Codes(resumen, "codigomunicipio") # {}
    /\ Codes(resumen, "codigomunicipio") \ Codes(antioquia, "mpio_cdpmp") # {}
    /\ \E j \in 1..Len(antioquia_data.rows) :
         IsNaN(antioquia_data.rows[j].tasa_x_mil)

(* ---------------------------------------------------------------------- *)
(* C10: no update_map call, whatever its palette, label flag and mode,    *)
(* changes the global tables df and antioquia (no row, column or "clase"  *)
(* field is added), so the figure a call returns is one the loaded tables *)
(* and the call's own three arguments give, whatever calls came before.   *)
FigureFromInputs ==
    (Served /\ fig.status = "figure") =>
      \E out \in MapOutcomes(LoadedRecords, LoadedBoundaries,
                             inputs[1], inputs[2], inputs[3]) :
         /\ fig = out.fig
         /\ antioquia_data = out.data

UpdateMapLeavesTables ==
    /\ [][pc = "ready" => /\ df' = df
                          /\ antioquia' = antioquia
                          /\ resumen' = resumen]_vars
    /\ [](pc = "ready" => /\ df = LoadedRecords
                          /\ antioquia = LoadedBoundaries
                          /\ "clase" \notin antioquia.cols)
    /\ []FigureFromInputs

(* a classified call has returned and the globals are as loaded *)
ClassifiedCallReturned ==
    /\ Served
    /\ fig.status = "figure"
    /\ inputs[3] # "continuous"
    /\ "clase" \in antioquia_data.cols
    /\ "clase" \notin antioquia.cols
    /\ df = LoadedRecords

(* ---------------------------------------------------------------------- *)
(* C3: back-filling of the absent one of {numerocasos, poblacion}         *)
(* ---------------------------------------------------------------------- *)
CasesFilled ==
    /\ pc \in {"summary", "ready"}
    /\ {"tasaxmilhabitantes", "poblacion"} \subseteq csv.cols
    /\ "numerocasos" \notin csv.cols

PopulationFilled ==
    /\ pc \in {"summary", "ready"}
    /\ {"tasaxmilhabitantes", "numerocasos"} \subseteq csv.cols
    /\ "poblacion" \notin csv.cols

(* c = r * p / 1000 for finite r and p, by cross-multiplication *)
IsCasesOf(c, r, p) ==
    /\ IsFinite(c)
    /\ c[1] * 1000 * r[2] * p[2] = r[1] * p[1] * c[2]

FilledAsStated ==
    /\ CasesFilled =>
         /\ "numerocasos" \in df.cols
         /\ \A i \in 1..Len(df.rows) :
              IsCasesOf(df.rows[i].numerocasos,
                        df.rows[i].tasaxmilhabitantes, df.rows[i].poblacion)
    /\ PopulationFilled =>
         /\ "poblacion" \in df.cols
         /\ \A i \in 1..Len(df.rows) :
              IsRateOf(df.rows[i].poblacion, df.rows[i].numerocasos,
                       df.rows[i].tasaxmilhabitantes)

RowIdentity(row) ==
    /\ ~IsNaN(row.tasaxmilhabitantes)
    /\ ~IsNaN(row.poblacion)
    /\ IsRateOf(row.tasaxmilhabitantes, row.numerocasos, row.poblacion)

(* C3 as stated: after the back-fill every row, those of rate 0 included, *)
(* satisfies rate = cases / population * 1000.                            *)
ReconcileIdentityEveryRow ==
    (CasesFilled \/ PopulationFilled) =>
      /\ FilledAsStated
      /\ \A i \in 1..Len(df.rows) : RowIdentity(df.rows[i])

(* C3 (amended): the absent column is filled by cases = rate * population *)
(* / 1000, or population = cases * 1000 / rate, and every row whose       *)
(* population, given or filled, is neither zero nor undefined satisfies   *)
(* rate = cases / population * 1000.                                      *)
ReconcileIdentity ==
    (CasesFilled \/ PopulationFilled) =>
      /\ FilledAsStated
      /\ \A i \in 1..Len(df.rows) :
           (df.rows[i].poblacion # Zero /\ ~IsNaN(df.rows[i].poblacion))
             => RowIdentity(df.rows[i])

(* a population was filled, for a row of rate 0 and for a row of rate > 0 *)
PopulationBackfilled ==
    /\ PopulationFilled
    /\ \E i, j \in 1..Len(df.rows) :
         /\ df.rows[i].tasaxmilhabitantes = Zero
         /\ df.rows[i].poblacion = Inf
         /\ df.rows[j].tasaxmilhabitantes # Zero
         /\ IsFinite(df.rows[j].poblacion)
         /\ RowIdentity(df.rows[j])

(* ---------------------------------------------------------------------- *)
(* C4: a municipality whose aggregated population is zero has a rate that *)
(* update_map treats as missing: whenever a quantile or natural-breaks    *)
(* call returns, that rate is not among the values the scheme was fitted  *)
(* on.                                                                    *)
ZeroPopulationRateIsMissing ==
    (Served /\ inputs[3] # "continuous" /\ fig.status = "figure")
    => \A i \in 1..Len(antioquia_data.rows) :
         antioquia_data.rows[i].poblacion_total = Zero
           => antioquia_data.rows[i].tasa_x_mil \notin Range(scheme.y)

(* ---------------------------------------------------------------------- *)
(* C5: in quantile and natural-breaks mode a feature whose rate is        *)
(* missing is left out of the fitted sample and keeps a null class: it is *)
(* given none of the class indices 0..4. Stated for fits on a non-empty   *)
(* sample of finite rates.                                                *)
MissingRateKeepsNullClass ==
    (Served /\ inputs[3] # "continuous" /\ fig.status = "figure"
       /\ ~Degenerate(scheme.y))
    => /\ \A v \in Range(scheme.y) : ~IsNaN(v)
       /\ \A i \in 1..Len(antioquia_data.rows) :
            IsNaN(antioquia_data.rows[i].tasa_x_mil)
              => /\ antioquia_data.rows[i].clase = NA
                 /\ antioquia_data.rows[i].clase \notin 0..(NumClasses - 1)

(* ---------------------------------------------------------------------- *)
(* C6: in quantile mode over a non-degenerate sample every feature with a *)
(* rate gets one label in 0..4, the lowest rate gets label 0, and labels  *)
(* ascend with the rate: rate(a) <= rate(b) implies class(a) <= class(b). *)
QuantileCall ==
    /\ Served
    /\ inputs[3] = "quantiles"
    /\ fig.status = "figure"
    /\ ~Degenerate(scheme.y)

Underivable ==
    /\ pc \in {"ready", "failed"}
    /\ ~({"numerocasos", "poblacion"} \subseteq df.cols)

UnderivableColumnsGiveNulls ==
    Underivable =>
      /\ pc = "ready"
      /\ \A j \in 1..Len(resumen.rows) :
           /\ "numerocasos" \notin df.cols
                => IsNaN(resumen.rows[j].casos_totales)
           /\ "poblacion" \notin df.cols
                => IsNaN(resumen.rows[j].poblacion_total)
           /\ IsNaN(resumen.rows[j].tasa_x_mil)

(* ---------------------------------------------------------------------- *)
(* C9: zero-padded municipality codes                                     *)
(* ---------------------------------------------------------------------- *)
RECURSIVE StrToInt(_)
StrToInt(s) ==
    IF s = <<>> THEN 0
    ELSE 10 * StrToInt(SubSeq(s, 1, Len(s) - 1)) + s[Len(s)]

CodesNormalized == pc # "codes"

SameMunicipality(i, j) ==
    csv.rows[i].codigomunicipio = StrToInt(geojson.rows[j].mpio_cdpmp)

Idempotent(c) == zfill(c, CodeWidth) = c

(* C9 as stated: after loading every code of both tables has exactly 5    *)
(* characters, a record and a boundary of the same municipality carry     *)
(* equal codes, and padding a padded code changes nothing.                *)
CodesHaveFiveCharacters ==
    CodesNormalized =>
      /\ \A i \in 1..Len(df.rows) :
           /\ Len(df.rows[i].codigomunicipio) = CodeWidth
           /\ Idempotent(df.rows[i].codigomunicipio)
      /\ \A j \in 1..Len(antioquia.rows) :
           /\ Len(antioquia.rows[j].mpio_cdpmp) = CodeWidth
           /\ Idempotent(antioquia.rows[j].mpio_cdpmp)
      /\ \A i \in 1..Len(df.rows), j \in 1..Len(antioquia.rows) :
           SameMunicipality(i, j) =>
             df.rows[i].codigomunicipio = antioquia.rows[j].mpio_cdpmp

(* C9 (amended): after loading every code is the text of the raw code     *)
(* left-padded with zeros to at least 5 characters: exactly 5 when the    *)
(* raw text has at most 5 characters, the raw text unchanged when it is   *)
(* longer. A record and a boundary of the same municipality whose raw     *)
(* codes have at most 5 characters carry equal codes. Padding a padded    *)
(* code changes nothing.                                                  *)
CodesLeftPadded ==
    CodesNormalized =>
      /\ \A i \in 1..Len(df.rows) :
           LET raw == csv.rows[i].codigomunicipio
               c   == df.rows[i].codigomunicipio
           IN  /\ Len(c) >= CodeWidth
               /\ raw < 100000 => Len(c) = CodeWidth
               /\ raw >= 100000 => c[1] # 0
               /\ StrToInt(c) = raw
               /\ Idempotent(c)
      /\ \A j \in 1..Len(antioquia.rows) :
           LET raw == geojson.rows[j].mpio_cdpmp
               c   == antioquia.rows[j].mpio_cdpmp
           IN  /\ Len(c) >= CodeWidth
               /\ Len(raw) <= CodeWidth => Len(c) = CodeWidth
               /\ Len(raw) > CodeWidth => c = raw
               /\ SubSeq(c, Len(c) - Len(raw) + 1, Len(c)) = raw
               /\ StrToInt(c) = StrToInt(raw)
               /\ Idempotent(c)
      /\ \A i \in 1..Len(df.rows), j \in 1..Len(antioquia.rows) :
           (/\ SameMunicipality(i, j)
            /\ csv.rows[i].codigomunicipio < 100000
            /\ Len(geojson.rows[j].mpio_cdpmp) <= CodeWidth)
           => df.rows[i].codigomunicipio = antioquia.rows[j].mpio_cdpmp

(* a 4-digit record code and a 4-character boundary code met at 05002 *)
ShortCodesPadded ==
    /\ CodesNormalized
    /\ \E i \in 1..Len(df.rows), j \in 1..Len(antioquia.rows) :
         /\ csv.rows[i].codigomunicipio = 5002
         /\ Len(geojson.rows[j].mpio_cdpmp) = 4
         /\ df.rows[i].codigomunicipio = <<0, 5, 0, 0, 2>>
         /\ antioquia.rows[j].mpio_cdpmp = <<0, 5, 0, 0, 2>>

====
